---- MODULE Spec2Model ----
(***************************************************************************)
(* A model of manim-storyline: the StoryLineScene registry (stories, head, *)
(* world), the Transition hierarchy (Slide, FreeStoryLine and subclasses)  *)
(* and PolyFitStoryLine.determine_stories_to_include.                      *)
(*                                                                         *)
(* Python values are modelled as follows.                                  *)
(*  - A Story object is identified by its creation number (id); `heap`     *)
(*    holds the fields of every Story object ever constructed.             *)
(*  - scene.stories (an insertion-ordered dict) is a sequence of           *)
(*    [name, id] items in insertion order.                                 *)
(*  - A Mobject is a record [kind, of]: the frame and the dots of a story  *)
(*    carry the id of the Story that created them; the mobjects owned by a *)
(*    Transition (arrow, lines) carry of = 0.                              *)
(*  - An entry of stories_to_include_in_polyfit / _exclude_from_polyfit is *)
(*    either a str (form "name") or a Story object (form "story").         *)
(***************************************************************************)
EXTENDS Integers, Sequences, FiniteSets, TLC

\* ------------------------------------------------------------------ bounds
\* Stories registered when determine_stories_to_include is called on its own.
MaxStories == 3
\* Longest stories_to_include_in_polyfit tuple that is enumerated.
MaxInclude == 1
\* Longest stories_to_exclude_from_polyfit tuple that is enumerated.
MaxExclude == 2
\* Most points in a dot2target_line_through tuple.
MaxThrough == 1
\* Largest poly_degree a client gives to a PolyFitStoryLine.
MaxDegree == 2
\* Stories constructed in a scene that runs transitions, the origin included.
MaxSceneStories == 2
\* Slide transitions in one run of a scene.
MaxSlides == 1
\* FreeStoryLine (or subclass) transitions in one run of a scene.
MaxStoryLines == 1

\* Story objects constructed in a scene that builds a timeline.
MaxTimelineStories == 3
\* HorizontalStoryLine transitions in one timeline.
MaxChain == 3
\* How far up (in half units) a client moves a frame.
MaxFrameY == 1

\* Names given to create_story, in the order the model's client uses them.
NamePool == <<"story1", "story2", "story3", "story4", "story5", "story6">>

\* The names a client may write in an include / exclude list: "origin", the
\* names of the stories that can be created, and one more that never is.
ListNames == {"origin"} \cup {NamePool[i] : i \in 1..MaxStories}

VARIABLES
    display_origin_frame,       \* StoryLineScene.display_origin_frame (class attribute)
    add_origin_frame_to_world,  \* StoryLineScene.add_origin_frame_to_world
    heap,       \* heap[id]: the fields of Story object id
    stories,    \* scene.stories: sequence of [name, id], insertion order
    head,       \* scene.head: a Story id
    world,      \* scene.world: the set of mobjects of the Group
    mobjects,   \* scene.mobjects: what Scene.add / Scene.play put on the scene
    pc,         \* position of the client inside the running call
    tr,         \* the Transition object of the running / last call
    played,     \* the scene.play calls of the running / last call, in order
    lines,      \* FreeStoryLine._transition: the dot2target lines still to play
    raised,     \* the exception the last call raised, "none" if it returned
    ret,        \* the value the last call returned
    calls,      \* how many transition_to calls the client has made, by kind
    dropped,    \* animations the running / last call built and never played
    ypos        \* the y of every mobject that was moved from its default place

vars == <<display_origin_frame, add_origin_frame_to_world, heap, stories, head,
          world, mobjects, pc, tr, played, lines, raised, ret, calls, dropped,
          ypos>>

\* ------------------------------------------------------- Python containers
\* dict: the keys of an insertion-ordered dict.
Keys(d) == {d[i].name : i \in 1..Len(d)}

\* dict.__getitem__ for a key that is present.
DictGet(d, key) == d[CHOOSE i \in 1..Len(d) : d[i].name = key].id

\* dict.__setitem__: a present key keeps its position, a new key goes last.
DictSet(d, key, id) ==
    IF key \in Keys(d)
    THEN [i \in 1..Len(d) |-> IF d[i].name = key THEN [name |-> key, id |-> id] ELSE d[i]]
    ELSE Append(d, [name |-> key, id |-> id])

\* list(dict.values())
DictValues(d) == [i \in 1..Len(d) |-> d[i].id]

\* A str entry and a Story entry of an include / exclude list.
NameEntry(n) == [form |-> "name", name |-> n, id |-> 0]
StoryEntry(i) == [form |-> "story", name |-> heap[i].name, id |-> i]

\* a == b on list entries.  Story is a dataclass (eq=True): two Story objects
\* are equal iff all their fields are, and since every Story has its own frame
\* that is identity; a Story never equals a str (NotImplemented both ways).
PyEq(a, b) ==
    /\ a.form = b.form
    /\ IF a.form = "story" THEN a.id = b.id ELSE a.name = b.name

\* x in seq
PyIn(x, seq) == \E i \in 1..Len(seq) : PyEq(seq[i], x)

\* list.remove(x): drops the first element equal to x.
ListRemove(seq, x) ==
    LET k == CHOOSE i \in 1..Len(seq) :
                 /\ PyEq(seq[i], x)
                 /\ \A j \in 1..(i - 1) : ~PyEq(seq[j], x)
    IN  [i \in 1..(Len(seq) - 1) |-> IF i < k THEN seq[i] ELSE seq[i + 1]]

\* ------------------------------------------------------------- mobjects
Frame(id) == [kind |-> "frame", of |-> id]
InDot(id) == [kind |-> "in_dot", of |-> id]
OutDot(id) == [kind |-> "out_dot", of |-> id]

\* Story.__init__ (dataclass defaults): a fresh frame and two fresh dots.
NewStory(name, id) == [name |-> name, frame |-> Frame(id),
                       in_dot |-> InDot(id), out_dot |-> OutDot(id)]

\* ------------------------------------------------------------- positions
\* Only the y coordinate of a mobject is kept, in half units (a frame of
\* height 9 reaches 9 half units below its centre).  A mobject that was never
\* moved is where its constructor puts it: at the origin of the plane.
FrameHeight == 9
DotBuffer == 5

\* mobject.get_y()
GetY(pos, mob) == IF mob \in DOMAIN pos THEN pos[mob] ELSE 0

\* mobject.set_y(y)
SetY(pos, mob, y) == [o \in DOMAIN pos \cup {mob} |-> IF o = mob THEN y ELSE pos[o]]

\* dot.next_to(story.frame, direction, buffer) with the dataclass defaults of
\* Story (direction DOWN, buffer 5): the dot goes below the frame's bottom
\* edge (the radius of the dot is left out).
NextToY(pos, frame) == GetY(pos, frame) - FrameHeight - 2 * DotBuffer

\* ------------------------------- PolyFitStoryLine.determine_stories_to_include
\* The include loop.  scene.stories[story] hashes its key: a Story object is
\* unhashable (dataclass with eq and without frozen sets __hash__ to None), so
\* the lookup raises TypeError, which `except KeyError` does not catch.  A str
\* that is no key raises KeyError, which is caught: the str itself is appended.
RECURSIVE IncludeLoop(_, _, _)
IncludeLoop(include, k, acc) ==
    IF k > Len(include) THEN [raised |-> "none", val |-> acc]
    ELSE LET e == include[k] IN
         IF e.form = "story" THEN [raised |-> "TypeError", val |-> <<>>]
         ELSE IF e.name \in Keys(stories)
              THEN IncludeLoop(include, k + 1, Append(acc, StoryEntry(DictGet(stories, e.name))))
              ELSE IncludeLoop(include, k + 1, Append(acc, e))

\* The exclude loop: `for story in stories: ... stories.remove(story)`.  The
\* list iterator keeps an index into the list that is being shortened.
RECURSIVE ExcludeLoop(_, _, _)
ExcludeLoop(list, i, exclude) ==
    IF i > Len(list) THEN list
    ELSE IF PyIn(list[i], exclude) \/ PyIn(NameEntry(list[i].name), exclude)
         THEN ExcludeLoop(ListRemove(list, list[i]), i + 1, exclude)
         ELSE ExcludeLoop(list, i + 1, exclude)

\* The debug print of the names: story.name on a str raises AttributeError.
PrintNames(list) ==
    IF \E i \in 1..Len(list) : list[i].form = "name"
    THEN [raised |-> "AttributeError", val |-> <<>>]
    ELSE [raised |-> "none", val |-> list]

\* The routine with an empty include list read as "include nothing".
determine_stories_empty_include_is_nothing(include, exclude) ==
    LET inc == IncludeLoop(include, 1, <<>>) IN
    IF inc.raised # "none" THEN inc ELSE PrintNames(inc.val)

determine_stories_to_include(include, exclude) ==
    LET inc == IncludeLoop(include, 1, <<>>) IN
    IF inc.raised # "none" THEN inc
    ELSE IF inc.val = <<>>
         THEN PrintNames(ExcludeLoop([i \in 1..Len(stories) |->
                                         StoryEntry(DictValues(stories)[i])], 1, exclude))
         ELSE PrintNames(inc.val)

\* ----------------------------------------------------------- the scene
\* Mobjects owned by a Transition object and by the camera.
Arrow == [kind |-> "arrow", of |-> 0]
Head2DotLine == [kind |-> "head2dot_line", of |-> 0]
Dot2TargetLine == [kind |-> "dot2target_line", of |-> 0]
LineCopy(k) == [kind |-> "dot2target_line_copy", of |-> k]
ArrowTip == [kind |-> "arrow_tip", of |-> 0]
PolyCurve == [kind |-> "parametric_function", of |-> 0]
CameraFrame == [kind |-> "camera_frame", of |-> 0]
WorldGroup == [kind |-> "world", of |-> 0]

\* Field defaults of Transition and of show_world.
DefaultZoomOutMargin == 5
DefaultZoomInMargin == 2
DefaultShowWorldMargin == 2

\* No Transition object / no return value yet.
NoTransition == [cls |-> "none"]
NoValue == [op |-> "none", raised |-> "none", val |-> <<>>]

\* StoryLineScene.setup, run by the host before construct(): the state after
\* construction.  The two class attributes are fixed by the class definition.
Init ==
    /\ display_origin_frame \in BOOLEAN
    /\ add_origin_frame_to_world \in BOOLEAN
    /\ heap = <<[NewStory("origin", 1) EXCEPT !.in_dot = OutDot(1)]>>
    /\ stories = <<[name |-> "origin", id |-> 1]>>
    /\ head = 1
    /\ mobjects = IF display_origin_frame THEN {Frame(1)} ELSE {}
    /\ world = IF add_origin_frame_to_world THEN {Frame(1)} ELSE {}
    /\ pc = "idle"
    /\ tr = NoTransition
    /\ played = <<>>
    /\ lines = <<>>
    /\ raised = "none"
    /\ ret = NoValue
    /\ calls = [slide |-> 0, storyline |-> 0]
    /\ dropped = <<>>
    /\ ypos = [mob \in {} |-> 0]

\* StoryLineScene.create_story: Story(self, name) registers itself under its
\* name in __post_init__.
create_story(name) ==
    /\ pc = "idle"
    /\ dropped' = <<>>
    /\ heap' = Append(heap, NewStory(name, Len(heap) + 1))
    /\ stories' = DictSet(stories, name, Len(heap) + 1)
    /\ tr' = NoTransition
    /\ played' = <<>>
    /\ raised' = "none"
    /\ ret' = NoValue
    /\ UNCHANGED <<ypos, calls, display_origin_frame, add_origin_frame_to_world, head, world,
                   mobjects, pc, lines>>

\* ------------------------------------------------------ Transition objects
\* The dataclass fields of the five concrete classes; a class that lacks a
\* field carries the default of the subclass that has it.  head and target
\* are 0 until Transition._transition sets them.  An optional value is <<>>
\* for None and <<v>> for v: poly_degree, and poly (set by __post_init__).
NewTransition(cls, tfd, flags, through, include, exclude) ==
    [cls |-> cls,
     target_frame_display |-> tfd,
     zoom_out_margin |-> DefaultZoomOutMargin,
     zoom_in_margin |-> DefaultZoomInMargin,
     display_head_dot |-> flags[1],
     display_target_dot |-> flags[2],
     display_arrow |-> flags[3],
     display_head2dot_line |-> flags[4],
     display_dot2target_line |-> flags[5],
     dot2target_line_through |-> through,
     stories_to_include_in_polyfit |-> include,
     stories_to_exclude_from_polyfit |-> exclude,
     poly_degree |-> <<>>,
     poly |-> <<>>,
     stories |-> <<>>,
     head |-> 0,
     target |-> 0]

AllTrue == <<TRUE, TRUE, TRUE, TRUE, TRUE>>

\* What a client can write in an include / exclude tuple in the current state.
Entries == {NameEntry(n) : n \in ListNames} \cup {StoryEntry(i) : i \in 1..Len(heap)}

Tuples(S, n) == UNION {[1..k -> S] : k \in 0..n}

\* A set written as a tuple (the order of an exclude tuple is never read:
\* the code only tests membership in it).
RECURSIVE TupleOf(_)
TupleOf(S) == IF S = {} THEN <<>>
              ELSE LET x == CHOOSE y \in S : TRUE IN <<x>> \o TupleOf(S \ {x})

ExcludeTuples == {TupleOf(S) : S \in {T \in SUBSET Entries : Cardinality(T) <= MaxExclude}}

\* A client builds PolyFitStoryLine(include, exclude) on this scene and calls
\* determine_stories_to_include; the call ends the client's script ("done").
call_determine_stories_to_include(include, exclude) ==
    /\ pc = "idle"
    /\ dropped' = <<>>
    /\ tr' = NewTransition("PolyFitStoryLine", "True", AllTrue, 0, include, exclude)
    /\ LET r == determine_stories_to_include(include, exclude) IN
       /\ ret' = [op |-> "determine_stories_to_include", raised |-> r.raised, val |-> r.val]
       /\ raised' = r.raised
    /\ played' = <<>>
    /\ pc' = "done"
    /\ UNCHANGED <<ypos, calls, display_origin_frame, add_origin_frame_to_world, heap, stories,
                   head, world, mobjects, lines>>

NextResolve ==
    \/ Len(heap) < MaxStories /\ create_story(NamePool[Len(heap)])
    \/ \E include \in Tuples(Entries, MaxInclude), exclude \in ExcludeTuples :
          call_determine_stories_to_include(include, exclude)

SpecResolve == Init /\ [][NextResolve]_vars

\* ------------------------------------------------- animations and play
\* Animation descriptors: what is animated (mob) and with which argument.
AutoZoom(mob, margin) == [anim |-> "auto_zoom", mob |-> mob, arg |-> margin]
MoveTo(mob) == [anim |-> "move_to", mob |-> mob, arg |-> 0]
Shift(line) == [anim |-> "shift", mob |-> line, arg |-> 0]
Create(mob) == [anim |-> "Create", mob |-> mob, arg |-> 0]
GrowArrow(mob) == [anim |-> "GrowArrow", mob |-> mob, arg |-> 0]
FrameAnimation(mob) == [anim |-> "target_frame_display", mob |-> mob, arg |-> 0]

\* Scene.play(*anims) puts the mobject of every introducing animation on the
\* scene; camera animations introduce nothing.
Introduced(anims) ==
    {anims[i].mob : i \in {j \in 1..Len(anims) :
        anims[j].anim \in {"Create", "GrowArrow", "target_frame_display"}}}

\* ---------------------------------------------- Transition's methods
zoom_in_on_story(t, story) == AutoZoom(heap[story].frame, t.zoom_in_margin)

\* zoom_out_from_story written with the margin of zoom_in_on_story.
zoom_out_with_zoom_in_margin(t, story) == AutoZoom(heap[story].frame, t.zoom_in_margin)

zoom_out_from_story(t, story) == AutoZoom(heap[story].frame, t.zoom_out_margin)

slide_to_story(t, story) == AutoZoom(heap[story].frame, t.zoom_in_margin)

move_camera_frame_to(mob) == MoveTo(mob)

\* add_frame_to_scene: the frame goes on the scene and into the world.
add_frame_to_scene(story) ==
    /\ mobjects' = mobjects \cup {heap[story].frame}
    /\ world' = world \cup {heap[story].frame}

\* animate_frame_creation with the frame added to the world ahead of the check.
animate_frame_creation_adds_first(t, story) ==
    IF t.target_frame_display \in {"True", "False"}
    THEN [raised |-> "TransitionError", val |-> <<>>,
          world |-> world \cup {heap[story].frame}]
    ELSE [raised |-> "none",
          val |-> <<FrameAnimation(heap[story].frame)>>,
          world |-> world \cup {heap[story].frame}]

\* animate_frame_creation: raises for a bool flag before doing anything;
\* otherwise builds the animation and adds the frame to the world.
animate_frame_creation(t, story) ==
    IF t.target_frame_display \in {"True", "False"}
    THEN [raised |-> "TransitionError", val |-> <<>>, world |-> world]
    ELSE [raised |-> "none",
          val |-> <<FrameAnimation(heap[story].frame)>>,
          world |-> world \cup {heap[story].frame}]

\* FreeStoryLine.adjust_dot_position returns the in or the out dot of a story.
adjust_dot_position(story, in_or_out) ==
    IF in_or_out = "in" THEN heap[story].in_dot ELSE heap[story].out_dot

\* Where adjust_dot_position of the class of t leaves the mobjects: the dot
\* goes next to the frame of its story; HorizontalStoryLine then gives it the
\* y of the head's out_dot when the story is the target and of the head's
\* in_dot otherwise.  (VerticalStoryLine sets x, which is not kept.)
adjust_dot_position_y(pos, t, story, in_or_out) ==
    LET dot == adjust_dot_position(story, in_or_out)
        placed == SetY(pos, dot, NextToY(pos, heap[story].frame))
    IN  IF t.cls = "HorizontalStoryLine"
        THEN IF story = t.target
             THEN SetY(placed, dot, GetY(placed, heap[t.head].out_dot))
             ELSE SetY(placed, dot, GetY(placed, heap[t.head].in_dot))
        ELSE placed

\* PolyFitStoryLine._transition: `for story in self.stories:
\* self.adjust_dot_position(story, "out")`.
RECURSIVE adjust_out_dots(_, _, _)
adjust_out_dots(pos, t, list) ==
    IF list = <<>> THEN pos
    ELSE adjust_out_dots(adjust_dot_position_y(pos, t, Head(list).id, "out"), t, Tail(list))

\* `degree = self.poly_degree or len(self.stories) - 1`: a poly_degree of
\* None and a poly_degree of 0 are both falsy.
poly_degree_or_default(t, n) ==
    IF t.poly_degree # <<>> /\ t.poly_degree[1] # 0 THEN t.poly_degree[1] ELSE n - 1

\* fit_polynomial over the out dots of n stories: numpy's polyfit raises
\* ValueError for a negative degree and TypeError for no point at all; the
\* array of coefficients it returns is kept as its degree.
fit_polynomial(n, degree) ==
    IF degree < 0 THEN [raised |-> "ValueError", val |-> <<>>]
    ELSE IF n = 0 THEN [raised |-> "TypeError", val |-> <<>>]
    ELSE [raised |-> "none", val |-> <<degree>>]

\* line_from_dot_to_target: one copy of dot2target_line per through point
\* and one more to the frame; the uncopied line is what goes into the world.
line_from_dot_to_target(t) == [k \in 1..(t.dot2target_line_through + 1) |-> LineCopy(k)]

\* Transition._transition with head bound to the target.
bind_head_to_target(t, target) == [t EXCEPT !.head = target, !.target = target]

\* Transition._transition: binds scene, head (the scene's head) and target.
Transition_transition(t, target) == [t EXCEPT !.head = head, !.target = target]

\* "Target frame add" tested as `type(...) is bool`.
frame_added_if_bool(t) == t.target_frame_display \in {"True", "False"}

\* "Target frame add": `if self.target_frame_display is True`.
frame_added_at_start(t) == t.target_frame_display = "True"

\* The statement that follows the optional ones, by the flags of t.
AfterZoomOut(t) == IF t.cls = "Slide" THEN "slide" ELSE "head2dot"
AfterHead2Dot(t) == IF t.display_head_dot THEN "head_dot" ELSE "arrow"
AfterArrow(t) == IF t.display_target_dot THEN "target_dot" ELSE "dot2target"
BeforeZoomIn(t) == IF t.target_frame_display = "Animation" THEN "frame_create" ELSE "zoom_in"

\* ------------------------------------------------------ transition_to
\* StoryLineScene.transition_to up to the first play: the _transition of the
\* class of t runs its preamble (PolyFitStoryLine resolves its stories,
\* places their out dots and fits its polynomial once; an exception there
\* leaves transition_to), Transition._transition binds scene, head and
\* target, and a True target_frame_display adds the frame.
transition_to(story, t) ==
    /\ pc = "idle"
    /\ played' = <<>>
    /\ dropped' = <<>>
    /\ lines' = <<>>
    /\ ret' = [op |-> "transition_to", raised |-> "none", val |-> <<>>]
    /\ LET r == IF t.cls = "PolyFitStoryLine"
                THEN determine_stories_to_include(t.stories_to_include_in_polyfit,
                                                  t.stories_to_exclude_from_polyfit)
                ELSE [raised |-> "none", val |-> <<>>]
           resolved == t.cls = "PolyFitStoryLine" /\ r.raised = "none"
           fit == IF resolved /\ t.poly = <<>>
                  THEN fit_polynomial(Len(r.val), poly_degree_or_default(t, Len(r.val)))
                  ELSE [raised |-> r.raised, val |-> t.poly]
       IN /\ ypos' = IF resolved THEN adjust_out_dots(ypos, t, r.val) ELSE ypos
          /\ IF fit.raised # "none"
               THEN /\ tr' = [t EXCEPT !.stories = r.val]
                    /\ raised' = fit.raised
                    /\ pc' = "idle"
                    /\ UNCHANGED <<world, mobjects>>
               ELSE /\ tr' = Transition_transition([t EXCEPT !.stories = r.val,
                                                             !.poly = fit.val], story)
                    /\ raised' = "none"
                    /\ pc' = "zoom_out"
                    /\ IF frame_added_at_start(t)
                       THEN add_frame_to_scene(story)
                       ELSE UNCHANGED <<world, mobjects>>
    /\ calls' = IF t.cls = "Slide" THEN [calls EXCEPT !.slide = @ + 1]
                ELSE [calls EXCEPT !.storyline = @ + 1]
    /\ UNCHANGED <<display_origin_frame, add_origin_frame_to_world, heap, stories, head>>

\* self.scene.play(self.zoom_out_from_story(self.head))
play_zoom_out ==
    /\ pc = "zoom_out"
    /\ played' = Append(played, <<zoom_out_from_story(tr, tr.head)>>)
    /\ pc' = AfterZoomOut(tr)
    /\ UNCHANGED <<dropped, ypos, calls, display_origin_frame, add_origin_frame_to_world, heap, stories, head,
                   world, mobjects, tr, lines, raised, ret>>

\* Slide: self.scene.play(self.slide_to_story(target))
play_slide ==
    /\ pc = "slide"
    /\ played' = Append(played, <<slide_to_story(tr, tr.target)>>)
    /\ pc' = BeforeZoomIn(tr)
    /\ UNCHANGED <<dropped, ypos, calls, display_origin_frame, add_origin_frame_to_world, heap, stories, head,
                   world, mobjects, tr, lines, raised, ret>>

\* FreeStoryLine, "Head to dot line": line_from_head_to_dot puts the line
\* into the world, Create puts it on the scene.
play_head2dot ==
    /\ pc = "head2dot"
    /\ LET dot1 == adjust_dot_position(tr.head, "out") IN
       IF tr.display_head2dot_line
       THEN /\ world' = world \cup {Head2DotLine}
            /\ played' = Append(played, <<Create(Head2DotLine), move_camera_frame_to(dot1)>>)
            /\ mobjects' = mobjects \cup Introduced(<<Create(Head2DotLine)>>)
       ELSE /\ played' = Append(played, <<move_camera_frame_to(dot1)>>)
            /\ UNCHANGED <<world, mobjects>>
    /\ ypos' = adjust_dot_position_y(ypos, tr, tr.head, "out")
    /\ pc' = AfterHead2Dot(tr)
    /\ UNCHANGED <<dropped, calls, display_origin_frame, add_origin_frame_to_world, heap, stories, head,
                   tr, lines, raised, ret>>

\* FreeStoryLine, "Head dot" (display_head_dot is set).
play_head_dot ==
    /\ pc = "head_dot"
    /\ LET dot1 == adjust_dot_position(tr.head, "out") IN
       /\ played' = Append(played, <<Create(dot1)>>)
       /\ mobjects' = mobjects \cup Introduced(<<Create(dot1)>>)
       /\ world' = world \cup {dot1}
    /\ pc' = "arrow"
    /\ UNCHANGED <<dropped, ypos, calls, display_origin_frame, add_origin_frame_to_world, heap, stories, head,
                   tr, lines, raised, ret>>

\* animate_arrow: FreeStoryLine grows self.arrow and adds it to the world;
\* PolyFitStoryLine adds the arrow tip to the scene and creates the curve.
animate_arrow(t) ==
    IF t.cls = "PolyFitStoryLine"
    THEN [val |-> Create(PolyCurve), world |-> world, mobjects |-> mobjects \cup {ArrowTip}]
    ELSE [val |-> GrowArrow(Arrow), world |-> world \cup {Arrow}, mobjects |-> mobjects]

\* FreeStoryLine, "Arrow".
play_arrow ==
    /\ pc = "arrow"
    /\ LET dot2 == adjust_dot_position(tr.target, "in")
           a == animate_arrow(tr)
       IN IF tr.display_arrow
          THEN /\ world' = a.world
               /\ played' = Append(played, <<a.val, move_camera_frame_to(dot2)>>)
               /\ mobjects' = a.mobjects \cup Introduced(<<a.val>>)
          ELSE /\ played' = Append(played, <<move_camera_frame_to(dot2)>>)
               /\ UNCHANGED <<world, mobjects>>
    /\ ypos' = adjust_dot_position_y(ypos, tr, tr.target, "in")
    /\ pc' = AfterArrow(tr)
    /\ UNCHANGED <<dropped, calls, display_origin_frame, add_origin_frame_to_world, heap, stories, head,
                   tr, lines, raised, ret>>

\* FreeStoryLine, "Target dot" (display_target_dot is set).
play_target_dot ==
    /\ pc = "target_dot"
    /\ LET dot2 == adjust_dot_position(tr.target, "in") IN
       /\ played' = Append(played, <<Create(dot2)>>)
       /\ mobjects' = mobjects \cup Introduced(<<Create(dot2)>>)
       /\ world' = world \cup {dot2}
    /\ pc' = "dot2target"
    /\ UNCHANGED <<dropped, ypos, calls, display_origin_frame, add_origin_frame_to_world, heap, stories, head,
                   tr, lines, raised, ret>>

\* FreeStoryLine, "Dot to target line(s)": with the flag set, the lines are
\* built (the uncopied line enters the world) and the first one is played;
\* the move_camera_frame_to(target.frame) that follows the play is built and
\* not handed to play.  Otherwise the camera moves to the target frame.
play_dot2target ==
    /\ pc = "dot2target"
    /\ IF tr.display_dot2target_line
       THEN LET ls == line_from_dot_to_target(tr) IN
            /\ world' = world \cup {Dot2TargetLine}
            /\ played' = Append(played, <<Create(Head(ls)), Shift(Head(ls))>>)
            /\ mobjects' = mobjects \cup Introduced(<<Create(Head(ls))>>)
            /\ dropped' = Append(dropped, move_camera_frame_to(heap[tr.target].frame))
            /\ lines' = Tail(ls)
            /\ pc' = IF Tail(ls) = <<>> THEN BeforeZoomIn(tr) ELSE "dot2target_loop"
       ELSE /\ played' = Append(played, <<move_camera_frame_to(heap[tr.target].frame)>>)
            /\ pc' = BeforeZoomIn(tr)
            /\ UNCHANGED <<world, mobjects, lines, dropped>>
    /\ UNCHANGED <<ypos, calls, display_origin_frame, add_origin_frame_to_world, heap, stories, head,
                   tr, raised, ret>>

\* The next iteration of `for line in self.line_from_dot_to_target(target)`.
play_dot2target_loop ==
    /\ pc = "dot2target_loop"
    /\ played' = Append(played, <<Create(Head(lines)), Shift(Head(lines))>>)
    /\ mobjects' = mobjects \cup Introduced(<<Create(Head(lines))>>)
    /\ dropped' = Append(dropped, move_camera_frame_to(heap[tr.target].frame))
    /\ lines' = Tail(lines)
    /\ pc' = IF Tail(lines) = <<>> THEN BeforeZoomIn(tr) ELSE "dot2target_loop"
    /\ UNCHANGED <<ypos, calls, display_origin_frame, add_origin_frame_to_world, heap, stories, head,
                   world, tr, raised, ret>>

\* "Target frame create" (target_frame_display is an animation type).
play_frame_create ==
    /\ pc = "frame_create"
    /\ LET a == animate_frame_creation(tr, tr.target) IN
       IF a.raised # "none"
       THEN /\ raised' = a.raised
            /\ pc' = "idle"
            /\ UNCHANGED <<world, mobjects, played>>
       ELSE /\ world' = a.world
            /\ played' = Append(played, a.val)
            /\ mobjects' = mobjects \cup Introduced(a.val)
            /\ pc' = "zoom_in"
            /\ UNCHANGED raised
    /\ UNCHANGED <<dropped, ypos, calls, display_origin_frame, add_origin_frame_to_world, heap, stories, head,
                   tr, lines, ret>>

\* self.scene.play(self.zoom_in_on_story(target)): the last step.
play_zoom_in ==
    /\ pc = "zoom_in"
    /\ played' = Append(played, <<zoom_in_on_story(tr, tr.target)>>)
    /\ pc' = "assign"
    /\ UNCHANGED <<dropped, ypos, calls, display_origin_frame, add_origin_frame_to_world, heap, stories, head,
                   world, mobjects, tr, lines, raised, ret>>

\* transition_to after _transition has returned: self.head = story.
assign_head ==
    /\ pc = "assign"
    /\ head' = tr.target
    /\ pc' = "idle"
    /\ UNCHANGED <<dropped, ypos, calls, display_origin_frame, add_origin_frame_to_world, heap, stories,
                   world, mobjects, tr, played, lines, raised, ret>>

\* ------------------------------------------------------------ show_world
\* show_world without its except clause: the TypeError reaches the caller.
show_world_uncaught(margin) ==
    /\ pc = "idle"
    /\ dropped' = <<>>
    /\ tr' = NoTransition
    /\ lines' = <<>>
    /\ IF world = {}
       THEN /\ raised' = "TypeError"
            /\ played' = <<>>
       ELSE /\ raised' = "none"
            /\ played' = <<<<AutoZoom(WorldGroup, margin)>>>>
    /\ ret' = [op |-> "show_world", raised |-> raised', val |-> <<>>]
    /\ UNCHANGED <<ypos, calls, display_origin_frame, add_origin_frame_to_world, heap, stories, head,
                   world, mobjects, pc>>

\* camera.auto_zoom over an empty Group raises TypeError (it averages
\* critical points that were never set), which show_world turns into
\* StoryLineError; nothing is played then.
show_world(margin) ==
    /\ pc = "idle"
    /\ dropped' = <<>>
    /\ tr' = NoTransition
    /\ lines' = <<>>
    /\ IF world = {}
       THEN /\ raised' = "StoryLineError"
            /\ played' = <<>>
       ELSE /\ raised' = "none"
            /\ played' = <<<<AutoZoom(WorldGroup, margin)>>>>
    /\ ret' = [op |-> "show_world", raised |-> raised', val |-> <<>>]
    /\ UNCHANGED <<ypos, calls, display_origin_frame, add_origin_frame_to_world, heap, stories, head,
                   world, mobjects, pc>>

\* A client calls animate_frame_creation(story) itself on the Transition
\* object of the last transition (its scene is bound); the returned
\* animation is not played.  The call ends the client's script.
call_animate_frame_creation(story) ==
    /\ pc = "idle"
    /\ dropped' = <<>>
    /\ tr # NoTransition
    /\ tr.target # 0
    /\ LET a == animate_frame_creation(tr, story) IN
       /\ raised' = a.raised
       /\ world' = a.world
       /\ ret' = [op |-> "animate_frame_creation", raised |-> a.raised, val |-> a.val]
    /\ played' = <<>>
    /\ pc' = "done"
    /\ UNCHANGED <<ypos, calls, display_origin_frame, add_origin_frame_to_world, heap, stories, head,
                   mobjects, tr, lines>>

\* ------------------------------------------------ the client's choices
TargetFrameDisplays == {"True", "False", "Animation"}
DisplayFlags == [1..5 -> BOOLEAN]

SlideTransitions ==
    {NewTransition("Slide", d, AllTrue, 0, <<>>, <<>>) : d \in TargetFrameDisplays}

\* dot2target_line_through is read only when display_dot2target_line is set:
\* a non-empty tuple is enumerated with that flag only.
StoryLineTransitions ==
    {t \in {NewTransition(c, d, f, n, <<>>, <<>>) :
               c \in {"FreeStoryLine", "HorizontalStoryLine", "VerticalStoryLine",
                      "PolyFitStoryLine"},
               d \in TargetFrameDisplays, f \in DisplayFlags, n \in 0..MaxThrough} :
        t.dot2target_line_through = 0 \/ t.display_dot2target_line}

\* PolyFitStoryLine objects with an include and an exclude tuple of at most
\* one entry each and every other field at its default.
PolyFitListTransitions ==
    {NewTransition("PolyFitStoryLine", "True", AllTrue, 0, i, x) :
        i \in Tuples(Entries, 1), x \in Tuples(Entries, 1)}

\* PolyFitStoryLine objects with a poly_degree and every other field at its
\* default (the default poly_degree, None, is among StoryLineTransitions).
PolyFitDegreeTransitions ==
    {[NewTransition("PolyFitStoryLine", "True", AllTrue, 0, <<>>, <<>>)
         EXCEPT !.poly_degree = <<d>>] : d \in 0..MaxDegree}

Margins == {0, DefaultShowWorldMargin}

Next ==
    \/ Len(heap) < MaxSceneStories /\ create_story(NamePool[Len(heap)])
    \/ \E story \in 1..Len(heap), t \in SlideTransitions :
          calls.slide < MaxSlides /\ transition_to(story, t)
    \/ \E story \in 1..Len(heap), t \in StoryLineTransitions :
          calls.storyline < MaxStoryLines /\ transition_to(story, t)
    \/ \E story \in 1..Len(heap), t \in PolyFitListTransitions :
          calls.storyline < MaxStoryLines /\ transition_to(story, t)
    \/ \E story \in 1..Len(heap), t \in PolyFitDegreeTransitions :
          calls.storyline < MaxStoryLines /\ transition_to(story, t)
    \/ play_zoom_out
    \/ play_slide
    \/ play_head2dot
    \/ play_head_dot
    \/ play_arrow
    \/ play_target_dot
    \/ play_dot2target
    \/ play_dot2target_loop
    \/ play_frame_create
    \/ play_zoom_in
    \/ assign_head
    \/ \E margin \in Margins : show_world(margin)
    \/ \E story \in 1..Len(heap) : call_animate_frame_creation(story)

Spec == Init /\ [][Next]_vars

\* ------------------------------------------------------------ a timeline
\* The client places the frame of a story (example1: story1.frame.next_to).
move_frame(story, y) ==
    /\ pc = "idle"
    /\ ypos' = SetY(ypos, heap[story].frame, y)
    /\ UNCHANGED <<dropped, calls, display_origin_frame, add_origin_frame_to_world, heap,
                   stories, head, world, mobjects, pc, tr, played, lines, raised, ret>>

AllFalse == <<FALSE, FALSE, FALSE, FALSE, FALSE>>

\* HorizontalStoryLine() and HorizontalStoryLine with nothing displayed.
TimelineTransitions ==
    {NewTransition("HorizontalStoryLine", "True", f, 0, <<>>, <<>>) : f \in {AllTrue, AllFalse}}

\* A client that creates stories (under a new name or one already used),
\* places their frames, and then goes from story to story with
\* HorizontalStoryLine transitions only.
NextTimeline ==
    \/ \E name \in Keys(stories) \cup {NamePool[Len(heap)]} :
          Len(heap) < MaxTimelineStories /\ calls.storyline = 0 /\ create_story(name)
    \/ \E story \in 1..Len(heap), y \in 1..MaxFrameY :
          calls.storyline = 0 /\ heap[story].frame \notin DOMAIN ypos /\ move_frame(story, y)
    \/ \E story \in 1..Len(heap), t \in TimelineTransitions :
          calls.storyline < MaxChain /\ transition_to(story, t)
    \/ play_zoom_out
    \/ play_head2dot
    \/ play_head_dot
    \/ play_arrow
    \/ play_target_dot
    \/ play_dot2target
    \/ play_zoom_in
    \/ assign_head

SpecTimeline == Init /\ [][NextTimeline]_vars

\* --------------------------------------------------- a play that raises
\* What a step has done to the world, the scene and the dots by the time it
\* calls scene.play: the lines, the arrow and the frame enter the world (and
\* PolyFitStoryLine's arrow tip the scene) while the animation is built.
WorldBeforePlay ==
    CASE pc = "head2dot" /\ tr.display_head2dot_line -> world \cup {Head2DotLine}
      [] pc = "arrow" /\ tr.display_arrow -> animate_arrow(tr).world
      [] pc = "dot2target" /\ tr.display_dot2target_line -> world \cup {Dot2TargetLine}
      [] pc = "frame_create" -> animate_frame_creation(tr, tr.target).world
      [] OTHER -> world

SceneBeforePlay ==
    IF pc = "arrow" /\ tr.display_arrow THEN animate_arrow(tr).mobjects ELSE mobjects

DotsBeforePlay ==
    CASE pc = "head2dot" -> adjust_dot_position_y(ypos, tr, tr.head, "out")
      [] pc = "arrow" -> adjust_dot_position_y(ypos, tr, tr.target, "in")
      [] OTHER -> ypos

\* transition_to written as try: ... finally: self.head = story.
play_raises_head_assigned ==
    /\ pc \notin {"idle", "done", "assign"}
    /\ raised' = "HostError"
    /\ pc' = "idle"
    /\ head' = tr.target
    /\ world' = WorldBeforePlay
    /\ mobjects' = SceneBeforePlay
    /\ ypos' = DotsBeforePlay
    /\ UNCHANGED <<dropped, calls, display_origin_frame, add_origin_frame_to_world, heap,
                   stories, tr, played, lines, ret>>

\* scene.play raises inside a step (an error of the host framework): nothing
\* catches it, so it leaves _transition and transition_to, and the
\* `self.head = story` that follows _transition is not reached.
play_raises ==
    /\ pc \notin {"idle", "done", "assign"}
    /\ raised' = "HostError"
    /\ pc' = "idle"
    /\ world' = WorldBeforePlay
    /\ mobjects' = SceneBeforePlay
    /\ ypos' = DotsBeforePlay
    /\ UNCHANGED <<dropped, calls, display_origin_frame, add_origin_frame_to_world, heap,
                   stories, head, tr, played, lines, ret>>

\* The transitions of a client whose plays may fail: the three Slide
\* objects, FreeStoryLine and PolyFitStoryLine with everything displayed, for
\* each target_frame_display and 0..MaxThrough through points, and
\* PolyFitStoryLine with include / exclude tuples.
FailingTransitions ==
    SlideTransitions
    \cup {NewTransition(c, d, AllTrue, n, <<>>, <<>>) :
            c \in {"FreeStoryLine", "PolyFitStoryLine"},
            d \in TargetFrameDisplays, n \in 0..MaxThrough}
    \cup PolyFitListTransitions

NextFailing ==
    \/ Len(heap) < MaxSceneStories /\ create_story(NamePool[Len(heap)])
    \/ \E story \in 1..Len(heap), t \in FailingTransitions :
          /\ IF t.cls = "Slide" THEN calls.slide < MaxSlides
                                ELSE calls.storyline < MaxStoryLines
          /\ transition_to(story, t)
    \/ play_zoom_out
    \/ play_slide
    \/ play_head2dot
    \/ play_head_dot
    \/ play_arrow
    \/ play_target_dot
    \/ play_dot2target
    \/ play_dot2target_loop
    \/ play_frame_create
    \/ play_zoom_in
    \/ assign_head
    \/ play_raises

SpecFailing == Init /\ [][NextFailing]_vars

\* ================================================================ claims
\* ------------------------------------------- determine_stories_to_include
Range(seq) == {seq[i] : i \in 1..Len(seq)}

\* The Story objects held in scene.stories.
RegisteredIds == {stories[i].id : i \in 1..Len(stories)}

\* Entry e names (str) or references (Story object) the registered story i.
Refers(e, i) == \/ e.form = "story" /\ e.id = i
                \/ e.form = "name" /\ e.name = heap[i].name

\* Every entry of the list names or references a registered story.
AllRegistered(list) ==
    \A k \in 1..Len(list) : \E i \in RegisteredIds : Refers(list[k], i)

\* The stories named or referenced in a list, as returned values.
Resolved(list) ==
    {StoryEntry(i) : i \in {j \in RegisteredIds : \E k \in 1..Len(list) : Refers(list[k], j)}}

\* A finished call of determine_stories_to_include on tr.
AfterDetermine == ret.op = "determine_stories_to_include"

\* C1: with an empty include list the call returns exactly the stories of the
\* registry that the exclude list neither names nor references.
C1_ExcludeOnlyReturnsComplement ==
    (AfterDetermine /\ tr.stories_to_include_in_polyfit = <<>>)
    => /\ ret.raised = "none"
       /\ Range(ret.val) =
            {StoryEntry(i) : i \in RegisteredIds} \ Resolved(tr.stories_to_exclude_from_polyfit)

\* C2: with a non-empty include list (of registered stories, by name or by
\* object) the call returns the stories of that list and nothing else, and
\* the exclude list has no effect.
C2_IncludeTakesPrecedence ==
    (AfterDetermine /\ tr.stories_to_include_in_polyfit # <<>>
       /\ AllRegistered(tr.stories_to_include_in_polyfit))
    => /\ ret.raised = "none"
       /\ Range(ret.val) = Resolved(tr.stories_to_include_in_polyfit)
       /\ \A x \in ExcludeTuples :
            determine_stories_to_include(tr.stories_to_include_in_polyfit, x).val = ret.val

\* C3: with both lists empty the call returns every registered story, the
\* origin included, in registration order.
C3_BothEmptyReturnsAll ==
    (AfterDetermine /\ tr.stories_to_include_in_polyfit = <<>>
       /\ tr.stories_to_exclude_from_polyfit = <<>>)
    => /\ ret.raised = "none"
       /\ ret.val = [i \in 1..Len(stories) |-> StoryEntry(stories[i].id)]
       /\ StoryEntry(1) \in Range(ret.val)

\* C3 witness: a call with both lists empty on a registry of several stories.
C3_Witness ==
    /\ AfterDetermine
    /\ tr.stories_to_include_in_polyfit = <<>>
    /\ tr.stories_to_exclude_from_polyfit = <<>>
    /\ Len(stories) >= 2
    /\ Len(ret.val) = Len(stories)

\* The other form (name / Story object) of an entry for a registered story.
OtherForm(e) == IF e.form = "name" THEN StoryEntry(DictGet(stories, e.name))
                ELSE NameEntry(e.name)

\* The lists obtained by replacing any entries by their other form.
FormVariants(list) ==
    {v \in [1..Len(list) -> Entries] :
        \A k \in 1..Len(list) : v[k] \in {list[k], OtherForm(list[k])}}

\* C4: in both lists the name and the Story object of a registered story are
\* interchangeable: every mix of forms returns the same result, none fails.
C4_NameAndObjectInterchangeable ==
    (AfterDetermine /\ AllRegistered(tr.stories_to_include_in_polyfit)
       /\ AllRegistered(tr.stories_to_exclude_from_polyfit))
    => \A i2 \in FormVariants(tr.stories_to_include_in_polyfit),
          x2 \in FormVariants(tr.stories_to_exclude_from_polyfit) :
            LET r2 == determine_stories_to_include(i2, x2) IN
            /\ ret.raised = "none"
            /\ r2.raised = "none"
            /\ r2.val = ret.val

\* C5: an include list of names, one of which is not registered, makes the
\* call raise the lookup error (KeyError) itself.
C5_UnknownNameRaisesLookupError ==
    (AfterDetermine
       /\ (\A k \in 1..Len(tr.stories_to_include_in_polyfit) :
             tr.stories_to_include_in_polyfit[k].form = "name")
       /\ (\E j \in 1..Len(tr.stories_to_include_in_polyfit) :
             tr.stories_to_include_in_polyfit[j].name \notin Keys(stories)))
    => ret.raised = "KeyError"

\* ----------------------------------------------------- the scene's calls
\* A transition_to call is between its first statement and its return.
Running == pc \notin {"idle", "done"}

\* This step is one statement of a transition_to call.
TransitionStep == (pc = "idle" /\ pc' = "zoom_out") \/ Running

\* C6: animate_frame_creation raises TransitionError for a boolean
\* target_frame_display and then neither adds the frame to the world nor
\* returns an animation; for an animation type it returns that animation on
\* the story's frame and adds the frame to the world.
C6_AnimateFrameCreationGuard ==
    [][(pc = "idle" /\ ret'.op = "animate_frame_creation")
        => IF tr.target_frame_display \in {"True", "False"}
           THEN /\ raised' = "TransitionError"
                /\ ret'.val = <<>>
                /\ world' = world
                /\ mobjects' = mobjects
           ELSE /\ raised' = "none"
                /\ \E story \in 1..Len(heap) :
                      /\ ret'.val = <<FrameAnimation(heap[story].frame)>>
                      /\ world' = world \cup {heap[story].frame}]_vars

\* C6 witness: the call on a Transition whose target_frame_display is False has
\* raised TransitionError and the world is still without any story frame.
C6_Witness ==
    /\ ret.op = "animate_frame_creation"
    /\ tr.target_frame_display = "False"
    /\ raised = "TransitionError"
    /\ \A i \in 1..Len(heap) : heap[i].frame \notin world

\* C7: show_world raises StoryLineError on an empty world, then plays nothing
\* and leaves head, stories and world alone; on a non-empty world it plays
\* one auto-zoom over the whole world with the given margin and raises nothing.
C7_ShowWorldGuard ==
    [][(pc = "idle" /\ ret'.op = "show_world")
        => /\ head' = head /\ stories' = stories /\ world' = world
           /\ IF world = {}
              THEN raised' = "StoryLineError" /\ played' = <<>>
              ELSE /\ raised' = "none"
                   /\ \E margin \in Margins :
                         played' = <<<<AutoZoom(WorldGroup, margin)>>>>]_vars

\* C7 witness: show_world has raised StoryLineError in a scene whose class
\* keeps the origin frame out of the world.
C7_Witness ==
    /\ ret.op = "show_world"
    /\ raised = "StoryLineError"
    /\ ~add_origin_frame_to_world
    /\ world = {}
    /\ played = <<>>

\* C8: at every step of a transition the transition's head is the story that
\* was the scene's head when transition_to was called, the scene's head is
\* assigned only after the last step (the zoom-in) has been played, and it is
\* then the given story.
C8_HeadAssignedAfterLastStep ==
    [][/\ (pc = "idle" /\ pc' = "zoom_out") => (tr'.head = head /\ head' = head)
       /\ (Running /\ pc # "assign") => (tr' = tr /\ tr.head = head /\ head' = head)
       /\ (head' # head) => pc = "assign"
       /\ (pc = "assign")
            => /\ played[Len(played)] = <<zoom_in_on_story(tr, tr.target)>>
               /\ head' = tr.target
               /\ pc' = "idle"]_vars

\* C8 witness: a transition to another story than the head has returned.
C8_Witness ==
    /\ pc = "idle"
    /\ ret.op = "transition_to"
    /\ raised = "none"
    /\ tr.head # tr.target
    /\ head = tr.target
    /\ Len(played) >= 3

\* C9: no step of a transition whose target_frame_display is False changes
\* whether the target's frame is on the scene or in the world.
C9_FalseDisplayLeavesFrame ==
    [][(TransitionStep /\ tr'.target_frame_display = "False")
        => /\ (heap[tr'.target].frame \in world') <=> (heap[tr'.target].frame \in world)
           /\ (heap[tr'.target].frame \in mobjects') <=> (heap[tr'.target].frame \in mobjects)]_vars

\* C9 witness: a story line transition with target_frame_display False and every
\* other display flag set has returned, and the target's frame is neither on
\* the scene nor in the world.
C9_Witness ==
    /\ pc = "idle"
    /\ ret.op = "transition_to"
    /\ tr.cls = "FreeStoryLine"
    /\ tr.target_frame_display = "False"
    /\ tr.display_head_dot /\ tr.display_target_dot /\ tr.display_arrow
    /\ tr.display_head2dot_line /\ tr.display_dot2target_line
    /\ head = tr.target
    /\ heap[tr.target].frame \notin world
    /\ heap[tr.target].frame \notin mobjects
    /\ Dot2TargetLine \in world

\* The play calls of a whole Slide transition, in order.
SlidePlays(t) ==
    <<<<AutoZoom(heap[t.head].frame, t.zoom_out_margin)>>,
      <<AutoZoom(heap[t.target].frame, t.zoom_in_margin)>>>>
    \o (IF t.target_frame_display = "Animation"
        THEN <<<<FrameAnimation(heap[t.target].frame)>>>> ELSE <<>>)
    \o <<<<AutoZoom(heap[t.target].frame, t.zoom_in_margin)>>>>

\* How many of them have been played when the call is at pc.
SlidePlayed(t, at) ==
    CASE at = "zoom_out" -> 0
      [] at = "slide" -> 1
      [] at = "frame_create" -> 2
      [] at = "zoom_in" -> Len(SlidePlays(t)) - 1
      [] OTHER -> Len(SlidePlays(t))

\* C10: a Slide adds the target frame to scene and world before any play
\* exactly when target_frame_display is True; plays zoom-out (head,
\* zoom_out_margin), slide (target), the frame creation exactly when
\* target_frame_display is an animation type, and zoom-in (target,
\* zoom_in_margin), in this order; the frame enters the world at no other step.
C10_SlideStepOrder ==
    [][(TransitionStep /\ tr'.cls = "Slide")
        => LET f == heap[tr'.target].frame IN
           /\ played' = SubSeq(SlidePlays(tr'), 1, SlidePlayed(tr', pc'))
           /\ IF pc = "idle"
              THEN /\ played' = <<>>
                   /\ IF tr'.target_frame_display = "True"
                      THEN world' = world \cup {f} /\ mobjects' = mobjects \cup {f}
                      ELSE world' = world /\ mobjects' = mobjects
              ELSE IF pc = "frame_create"
                   THEN /\ tr.target_frame_display = "Animation"
                        /\ world' = world \cup {f} /\ mobjects' = mobjects \cup {f}
                   ELSE world' = world /\ mobjects' = mobjects]_vars

\* C10 witness: a Slide whose target_frame_display is an animation type has
\* returned after its four plays.
C10_Witness ==
    /\ pc = "idle"
    /\ ret.op = "transition_to"
    /\ tr.cls = "Slide"
    /\ tr.target_frame_display = "Animation"
    /\ head = tr.target
    /\ tr.head # tr.target
    /\ Len(played) = 4
    /\ heap[tr.target].frame \in world

\* ------------------------------------------------- FreeStoryLine's steps
\* The plays the documented step order gives for the fields of t: zoom-out,
\* head2dot line with the camera going to the head dot, head dot, arrow with
\* the camera going to the target dot, target dot, the line(s) to the target
\* frame with the camera following them, frame creation, zoom-in.
DocumentedFreePlays(t) ==
    LET dot1 == heap[t.head].out_dot
        dot2 == heap[t.target].in_dot
        frame == heap[t.target].frame
    IN  <<<<zoom_out_from_story(t, t.head)>>>>
        \o <<IF t.display_head2dot_line
              THEN <<Create(Head2DotLine), MoveTo(dot1)>> ELSE <<MoveTo(dot1)>>>>
        \o (IF t.display_head_dot THEN <<<<Create(dot1)>>>> ELSE <<>>)
        \o <<IF t.display_arrow
              THEN <<GrowArrow(Arrow), MoveTo(dot2)>> ELSE <<MoveTo(dot2)>>>>
        \o (IF t.display_target_dot THEN <<<<Create(dot2)>>>> ELSE <<>>)
        \o (IF t.display_dot2target_line
            THEN [k \in 1..(t.dot2target_line_through + 1) |->
                     <<Create(LineCopy(k)), Shift(LineCopy(k))>>]
            ELSE <<<<MoveTo(frame)>>>>)
        \o (IF t.target_frame_display = "Animation"
            THEN <<<<FrameAnimation(frame)>>>> ELSE <<>>)
        \o <<<<zoom_in_on_story(t, t.target)>>>>

\* C11: when a FreeStoryLine transition has run its last step, its plays are
\* the documented steps in the documented order, an optional element being
\* created exactly when its display flag is set, and every element the
\* transition created on the scene has been added to the world.
C11_FreeStoryLineSteps ==
    (pc = "assign" /\ tr.cls = "FreeStoryLine") =>
        /\ played = DocumentedFreePlays(tr)
        /\ \A i \in 1..Len(played) : Introduced(played[i]) \subseteq world

\* ------------------------------------------------------------ the world
\* C12: between the client's calls, in a scene whose origin frame is either
\* both displayed and in the world or neither, what the library has put on
\* the scene (frames, lines, dots, arrows) is exactly what it has added to
\* scene.world.
C12_WorldIsWhatIsDisplayed ==
    (pc = "idle" /\ display_origin_frame = add_origin_frame_to_world) =>
        mobjects = world

\* ------------------------------------------------- the fitted polynomial
\* C13: the polynomial a PolyFitStoryLine transition has fitted has degree
\* poly_degree when poly_degree is given (0 included), and the number of
\* stories resolved for the fit minus 1 when poly_degree is None.
C13_DegreeIsPolyDegreeOrDefault ==
    (tr.cls = "PolyFitStoryLine" /\ ret.op = "transition_to" /\ tr.poly # <<>>) =>
        tr.poly[1] = IF tr.poly_degree # <<>> THEN tr.poly_degree[1]
                     ELSE Len(tr.stories) - 1

\* ------------------------------------------------------------ timelines
\* The dots that adjust_dot_position has placed so far.
PlacedDots == {mob \in DOMAIN ypos : mob.kind \in {"in_dot", "out_dot"}}

\* C14: in a scene whose transitions are all HorizontalStoryLine ones, from
\* the origin on, (1) when a transition has returned, the head's out_dot and
\* the target's in_dot it joined have the same y, and (2) every dot placed so
\* far has the y of the origin's dot.
C14_HorizontalTimeline ==
    /\ (pc = "idle" /\ ret.op = "transition_to" /\ tr.cls = "HorizontalStoryLine") =>
           GetY(ypos, heap[tr.head].out_dot) = GetY(ypos, heap[tr.target].in_dot)
    /\ (tr # NoTransition /\ tr.cls = "HorizontalStoryLine") =>
           \A dot \in PlacedDots : ypos[dot] = GetY(ypos, heap[1].out_dot)

\* --------------------------------------------------------- the registry
\* The Story object that was the first to be created under a name.
FirstCreated(name) == CHOOSE id \in 1..Len(heap) :
    /\ heap[id].name = name
    /\ \A other \in 1..(id - 1) : heap[other].name # name

\* C15: every Story object ever created in the scene is the value of
\* scene.stories under its name, and the keys of scene.stories are in the
\* order in which their names were first created.
C15_RegistryKeepsEveryStory ==
    /\ \A id \in 1..Len(heap) :
          /\ heap[id].name \in Keys(stories)
          /\ DictGet(stories, heap[id].name) = id
    /\ \A i, j \in 1..Len(stories) :
          i < j => FirstCreated(stories[i].name) < FirstCreated(stories[j].name)

\* ------------------------------------------------- build, then play
\* C16: in a transition_to call of any class, every animation that a step
\* has built has been handed to scene.play: none was built and dropped.
C16_EveryAnimationIsPlayed ==
    ret.op = "transition_to" => dropped = <<>>

\* ------------------------------------------------- a transition that raises
\* C17: a step that makes transition_to raise (in the preamble of the
\* transition or in a play) ends the call and changes neither scene.head nor
\* scene.stories; when the transition was under way, head is the story it
\* was when the call began.
C17_RaiseLeavesHeadAndRegistry ==
    [][(ret'.op = "transition_to" /\ raised' # "none") =>
          /\ pc' = "idle"
          /\ head' = head
          /\ stories' = stories
          /\ (pc # "idle" => head = tr.head)]_vars

\* A play has raised on the way to a story that is not the head, after at
\* least one step was played: the head is still the story left behind.
C17_Witness ==
    /\ pc = "idle"
    /\ ret.op = "transition_to"
    /\ raised = "HostError"
    /\ Len(played) > 0
    /\ tr.target # tr.head
    /\ head = tr.head
====
